---- MODULE Spec2Model ----
(***************************************************************************)
(* Research assistant backend: the guard pipeline (ParallelBefore /        *)
(* ParallelAfter middlewares and the guards they run), the query-analyzer  *)
(* interrupt middleware, and the orchestrator's workflow around them.      *)
(*                                                                         *)
(* A text is a sequence of fragments (strings); "phrase in text" is        *)
(* membership of the phrase among the fragments, "\n".join(xs) interleaves *)
(* the fragment NL.  A message is [type, content].                         *)
(***************************************************************************)
EXTENDS Integers, Sequences, FiniteSets, TLC

\* ---------------------------------------------------------------- bounds
MaxHist == 2
MaxUnits == 2
MaxRounds == 2
MaxTasks == 2
MaxResumes == 1
MaxPlan == 4
MaxCites == 2
MaxOlder == 1

\* ------------------------------------------------------ program constants
max_concurrent_research_units == 3
max_researcher_iterations == 5
max_workers == 10
PromptInjectionWindow == 5
JailbreakWindow == 10

refusal_phrases ==
  << "I cannot process that request as it violates safety guidelines.",
     "We are unable to give you response as it violates our safety guidelines." >>

\* ------------------------------------------------------------------ texts
NL == "\n"

HumanMessage(c) == [type |-> "human", content |-> c]
AIMessage(c) == [type |-> "ai", content |-> c]

isinstance_HumanMessage(m) == m.type = "human"

\* seq[-n:]
LastN(seq, n) ==
  IF Len(seq) <= n THEN seq ELSE SubSeq(seq, Len(seq) - n + 1, Len(seq))

RECURSIVE Join(_)
\* "\n".join(texts) for a sequence of texts
Join(texts) ==
  IF texts = <<>> THEN <<>>
  ELSE IF Len(texts) = 1 THEN texts[1]
  ELSE texts[1] \o <<NL>> \o Join(Tail(texts))

Contents(msgs) == [i \in 1..Len(msgs) |-> msgs[i].content]

\* phrase in text
PhraseIn(phrase, text) == \E i \in 1..Len(text) : text[i] = phrase

\* any(phrase in last_message for phrase in self.refusal_phrases)
ContainsRefusal(text) ==
  \E k \in 1..Len(refusal_phrases) : PhraseIn(refusal_phrases[k], text)

\* ------------------------------------------------- middleware return values
\* What a guard's future holds: still running, a returned value (None, the
\* state handed back unchanged, a dict with messages and jump_to) or an
\* exception.
Running == [kind |-> "running", content |-> <<>>, jump_to |-> "", exc |-> ""]
None == [kind |-> "None", content |-> <<>>, jump_to |-> "", exc |-> ""]
StateUnchanged == [kind |-> "state", content |-> <<>>, jump_to |-> "", exc |-> ""]
Raise(e) == [kind |-> "exc", content |-> <<>>, jump_to |-> "", exc |-> e]

\* {"messages": [{"role": "assistant", "content": refusal_phrases[k]}], "jump_to": "end"}
Refusal(k) ==
  [kind |-> "dict", content |-> <<refusal_phrases[k]>>, jump_to |-> "end", exc |-> ""]

IsBlock(r) == r.kind = "dict" /\ r.jump_to = "end"
IsExc(r) == r.kind = "exc"
IsPass(r) == r.kind \in {"None", "state"}

\* ---------------------------------------------------------- guard oracles
\* Replies of the external oracles; "error" is the call raising.
OracleError == "error"

PromptReplies == {"safe", "unsafe", OracleError}
JailbreakReplies == {"false", "true", OracleError}

\* The NeMo content-safety verdict object: each field present or absent.
SafetyValues == {"absent", "safe", "unsafe"}
ContentSafetyReplies ==
  {<<u, r>> : u \in SafetyValues, r \in SafetyValues} \cup {<<OracleError, OracleError>>}

\* result.classification == "safe"
llm_prompt_check(reply) == reply = "safe"

\* response.json()["jailbreak"]
jailbreak_check(reply) == reply = "true"

\* Faulty variant: verdict[field] with no default.
VerdictGetNoDefault(v) == v

\* verdict.get(field, "safe")
VerdictGet(v) == IF v = "absent" THEN "safe" ELSE v

content_safety_check(reply) ==
  VerdictGet(reply[1]) = "safe" /\ VerdictGet(reply[2]) = "safe"

\* state["messages"][-1].content
LastMessageText(messages) == messages[Len(messages)].content

\* ------------------------------------------------------------ the guards
\* Text each pre-guard submits to its oracle.
\* Faulty variant: the guard reads the last message only.
PromptInjectionLastOnly(messages) == LastMessageText(messages)

PromptInjectionText(messages) ==
  Join(Contents(LastN(SelectSeq(messages, isinstance_HumanMessage), PromptInjectionWindow)))

\* Faulty variant: the jailbreak guard reads every human message.
JailbreakAllHumans(messages) ==
  Join(Contents(SelectSeq(messages, isinstance_HumanMessage)))

JailbreakText(messages) ==
  Join(LastN(Contents(SelectSeq(messages, isinstance_HumanMessage)), JailbreakWindow))

\* PromptInjectionMiddleware.after_agent_logic: the last 5 messages of any type
AllMessagesText(messages) == Join(Contents(LastN(messages, PromptInjectionWindow)))

PromptInjection_before_agent_logic(messages, reply) ==
  IF messages = <<>> THEN None
  ELSE IF SelectSeq(messages, isinstance_HumanMessage) = <<>> THEN None
  ELSE IF reply = OracleError THEN Raise("OracleError")
  ELSE IF ~llm_prompt_check(reply) THEN Refusal(1)
  ELSE None

Jailbreak_before_agent_logic(messages, reply) ==
  IF messages = <<>> THEN None
  ELSE IF SelectSeq(messages, isinstance_HumanMessage) = <<>> THEN None
  ELSE IF reply = OracleError THEN Raise("OracleError")
  ELSE IF jailbreak_check(reply) THEN Refusal(1)
  ELSE None

ContentSafetyUser_before_agent_logic(messages, reply) ==
  IF messages = <<>> THEN None
  ELSE IF reply[1] = OracleError THEN Raise("OracleError")
  ELSE IF ~content_safety_check(reply) THEN Refusal(1)
  ELSE None

\* Faulty variant: the final guard has no exemption for refusals.
NeverSkips(text) == FALSE

\* "Skip check for our own refusals": the test is containment of a phrase.
SkipsOwnRefusal(text) == ContainsRefusal(text)

ContentSafetyAssistant_after_agent_logic(messages, reply) ==
  IF messages = <<>> THEN None
  ELSE IF SkipsOwnRefusal(LastMessageText(messages)) THEN None
  ELSE IF reply[1] = OracleError THEN Raise("OracleError")
  ELSE IF ~content_safety_check(reply) THEN Refusal(2)
  ELSE None

PromptInjection_after_agent_logic(messages, reply) ==
  IF messages = <<>> THEN None
  ELSE IF reply = OracleError THEN Raise("OracleError")
  ELSE IF ~llm_prompt_check(reply) THEN Refusal(1)
  ELSE None

\* ------------------------------------------------ the query analyzer output
\* The analyzer's last message is a JSON text: "{" field ... "}" is an
\* object, the other JSON values are not objects, anything else is not JSON.
TypeFields ==
  {"type:simple", "type:complex", "type:rubbish", "type:multitopic", "type:banana"}
InterruptFields == {"needs_interrupt:true", "needs_interrupt:false"}

JsonNonObjects == {<<"[", "]">>, <<"null">>}

IsJsonObject(content) ==
  Len(content) >= 2 /\ content[1] = "{" /\ content[Len(content)] = "}"

\* json.loads(content) succeeds
IsJson(content) == IsJsonObject(content) \/ content \in JsonNonObjects

\* json.loads(content) of an object: its fields
json_loads(content) == {content[i] : i \in 2..(Len(content) - 1)}

HasKey(data, key) ==
  CASE key = "type" -> data \cap TypeFields # {}
    [] key = "needs_interrupt" -> data \cap InterruptFields # {}
    [] OTHER -> key \in data

\* bool(data.get("needs_interrupt"))
NeedsInterrupt(data) == "needs_interrupt:true" \in data

TypeOf(data) ==
  IF HasKey(data, "type") THEN CHOOSE f \in data : f \in TypeFields ELSE "type:absent"

\* Faulty variant: the middleware never raises the interrupt.
QueryAnalyzerNeverInterrupts(messages) ==
  LET content == LastMessageText(messages) IN
  IF IsJson(content) /\ ~IsJsonObject(content) THEN Raise("AttributeError")
  ELSE StateUnchanged

QueryAnalyzer_after_agent_logic(messages) ==
  LET content == LastMessageText(messages) IN
  IF ~IsJson(content) THEN StateUnchanged
  ELSE IF ~IsJsonObject(content) THEN Raise("AttributeError")
  ELSE LET data == json_loads(content) IN
       IF NeedsInterrupt(data)
       THEN IF HasKey(data, "rewritten_query") /\ HasKey(data, "type")
                 /\ HasKey(data, "reason")
            THEN Raise("GraphInterrupt")
            ELSE StateUnchanged
       ELSE StateUnchanged

\* ------------------------------------------------------------------ state
VARIABLES
  messages,   \* the thread's conversation state (the main agent's messages)
  pc,         \* where the run of DeepAgents.invoke stands
  route,      \* what the orchestrator decided to end its turn with
  st,         \* per middleware stage: its thread pool, loop and return value
  oracleLog,  \* the oracle calls made so far: [stage, guard, text]
  ran,        \* the pipeline steps executed so far, in order
  units,      \* research units of the current round
  round,      \* delegation rounds dispatched
  error,      \* the exception that ended the run
  task,       \* the request's record in redis: status, message, result, error
  interrupts, \* the interrupts pending in the thread's checkpoint
  resumeLog,  \* the replies to interrupts posted on the thread
  tasks,      \* the server's task records, by task id
  results,    \* the findings of a round's units, in completion order
  citations,  \* the Sources section: the URLs in the order of their numbers
  workers,    \* the pool's work on each task: queued, running, closing, done
  poll,       \* a caller of GET /status: its position and its last response
  files,      \* the files under the backend's root directory, by name
  flows,      \* per thread id: where its workflow stands and what it read
  twins,      \* two threads side by side: the messages of each at a request
  verdicts,   \* per thread of the two: what each pre-guard returned on it
  session,    \* a frontend session: its history, its task, whether it reruns
  search,     \* a call of tavily_search: its position, results and output
  check       \* a call of content_safety_check: role, verdict object, result

\* The run of one request through the pipeline.
pipelineVars == <<messages, pc, route, st, oracleLog, ran, units, round, error>>
\* What the operations on a thread (resume), the server's pool and the
\* merge keep; a run of the pipeline leaves them alone.
aside == <<resumeLog, tasks, results, citations, workers, poll, files, flows,
           twins, verdicts, session, search, check>>

vars == <<messages, pc, route, st, oracleLog, ran, units, round, error,
          task, interrupts, resumeLog, tasks, results, citations, workers, poll,
          files, flows,
           twins, verdicts, session, search, check>>

\* ----------------------------------------------------- middleware stages
PreStage == <<"pre", 0>>
AnalyzerStage == <<"qa", 0>>
FinalStage == <<"final", 0>>
UnitStage(i) == <<"unit", i>>

UnitIds == 1..MaxPlan
StageIds == {PreStage, AnalyzerStage, FinalStage} \cup {UnitStage(i) : i \in UnitIds}
\* the stages that are guard stages: pre-guard, post-unit guard, final guard
GuardStageIds == StageIds \ {AnalyzerStage}

\* The middleware lists DeepAgents.create_agents hands to the wrappers.
GuardSet(s) ==
  CASE s[1] = "pre" -> {"PromptInjection", "Jailbreak", "ContentSafetyUser"}
    [] s[1] = "final" -> {"ContentSafetyAssistant"}
    [] s[1] = "qa" -> {"QueryAnalyzerHumanInterrupt"}
    [] OTHER -> {"PromptInjectionSubAgent"}

Replies(g) ==
  CASE g \in {"PromptInjection", "PromptInjectionSubAgent"} -> PromptReplies
    [] g = "Jailbreak" -> JailbreakReplies
    [] g \in {"ContentSafetyUser", "ContentSafetyAssistant"} -> ContentSafetyReplies
    [] OTHER -> {"none"}

\* mw.before_agent_logic(state, runtime) / mw.after_agent_logic(state, runtime)
Logic(g, state, reply) ==
  CASE g = "PromptInjection" -> PromptInjection_before_agent_logic(state, reply)
    [] g = "Jailbreak" -> Jailbreak_before_agent_logic(state, reply)
    [] g = "ContentSafetyUser" -> ContentSafetyUser_before_agent_logic(state, reply)
    [] g = "ContentSafetyAssistant" -> ContentSafetyAssistant_after_agent_logic(state, reply)
    [] g = "PromptInjectionSubAgent" -> PromptInjection_after_agent_logic(state, reply)
    [] OTHER -> QueryAnalyzer_after_agent_logic(state)

\* The guard reaches its oracle call on this state.
CallsOracle(g, state) ==
  CASE g \in {"PromptInjection", "Jailbreak"} ->
         state # <<>> /\ SelectSeq(state, isinstance_HumanMessage) # <<>>
    [] g \in {"ContentSafetyUser", "PromptInjectionSubAgent"} -> state # <<>>
    [] g = "ContentSafetyAssistant" ->
         state # <<>> /\ ~SkipsOwnRefusal(LastMessageText(state))
    [] OTHER -> FALSE

OracleText(g, state) ==
  CASE g = "PromptInjection" -> PromptInjectionText(state)
    [] g = "Jailbreak" -> JailbreakText(state)
    [] g = "PromptInjectionSubAgent" -> AllMessagesText(state)
    [] OTHER -> LastMessageText(state)

IdleStage ==
  [pc |-> "idle", input |-> <<>>, fut |-> [g \in {} |-> Running],
   consumed |-> {}, ret |-> None, from |-> ""]

\* executor.submit(mw.logic, state, runtime) for mw in self.middlewares
Submit(s, state) ==
  [pc |-> "loop", input |-> state, fut |-> [g \in GuardSet(s) |-> Running],
   consumed |-> {}, ret |-> None, from |-> ""]

\* Faulty variant: the loop returns the first result it sees, None included.
ResultIsAnything(result) == TRUE

\* "if result is not None"
ResultIsNotNone(result) == result # None

\* Faulty variant: "return None" inside the loop body.
LoopEndsAfterFirst(consumed, fut) == consumed # {}

\* as_completed(futures) has yielded every future
LoopExhausted(consumed, fut) == consumed = DOMAIN fut

\* ThreadPoolExecutor.__exit__: shutdown(wait=True) returns when no worker runs
ShutdownReturns(fut) == \A g \in DOMAIN fut : fut[g] # Running

\* A worker thread runs one guard to its end (the oracle answers or raises).
GuardRun(s, g) ==
  /\ st[s].pc \in {"loop", "exit"}
  /\ g \in DOMAIN st[s].fut
  /\ st[s].fut[g] = Running
  /\ \E reply \in Replies(g) :
       st' = [st EXCEPT ![s].fut[g] = Logic(g, st[s].input, reply)]
  /\ oracleLog' =
       IF CallsOracle(g, st[s].input)
       THEN oracleLog \cup {[stage |-> s, guard |-> g, text |-> OracleText(g, st[s].input)]}
       ELSE oracleLog
  /\ UNCHANGED <<messages, pc, route, ran, units, round, error, task, interrupts, aside>>

\* One turn of "for future in as_completed(futures)": future.result()
\* re-raises the guard's exception; the first result that is not None is
\* returned.
StageTake(s, g) ==
  /\ st[s].pc = "loop"
  /\ g \in DOMAIN st[s].fut
  /\ g \notin st[s].consumed
  /\ st[s].fut[g] # Running
  /\ LET result == st[s].fut[g] IN
       st' = IF IsExc(result) \/ ResultIsNotNone(result)
             THEN [st EXCEPT ![s].pc = "exit", ![s].ret = result, ![s].from = g]
             ELSE [st EXCEPT ![s].consumed = @ \cup {g}]
  /\ UNCHANGED <<messages, pc, route, oracleLog, ran, units, round, error, task, interrupts, aside>>

\* The loop is exhausted: "return None"
StageLoopEnd(s) ==
  /\ st[s].pc = "loop"
  /\ LoopExhausted(st[s].consumed, st[s].fut)
  /\ st' = [st EXCEPT ![s].pc = "exit", ![s].ret = None]
  /\ UNCHANGED <<messages, pc, route, oracleLog, ran, units, round, error, task, interrupts, aside>>

\* Leaving the "with ThreadPoolExecutor() as executor" block
StageExit(s) ==
  /\ st[s].pc = "exit"
  /\ ShutdownReturns(st[s].fut)
  /\ st' = [st EXCEPT ![s].pc = "returned"]
  /\ UNCHANGED <<messages, pc, route, oracleLog, ran, units, round, error, task, interrupts, aside>>

Returned(s) == st[s].pc = "returned"

\* ------------------------------------------------------------ the inputs
ToolMessage(c) == [type |-> "tool", content |-> c]

HistoryMessages == {HumanMessage(<<"q0">>), AIMessage(<<"a0">>)}

RECURSIVE SeqsUpTo(_, _)
SeqsUpTo(S, n) ==
  IF n = 0 THEN {<<>>}
  ELSE LET shorter == SeqsUpTo(S, n - 1) IN
       shorter \cup {Append(h, m) : h \in shorter, m \in S}

\* What the checkpointer holds for the thread before this request: earlier
\* turns, the first of them a user message.
Histories ==
  {h \in SeqsUpTo(HistoryMessages, MaxHist) : h = <<>> \/ isinstance_HumanMessage(h[1])}

Queries == {<<"q1">>}

Object(fields) == <<"{">> \o fields \o <<"}">>

WellFormedOutputs ==
  {Object(<<t, "rewritten_query", n, "reason">>) :
     t \in TypeFields \ {"type:banana"}, n \in InterruptFields}

MalformedOutputs ==
  { <<"sorry">>,
    <<"[", "]">>,
    Object(<<"type:complex", "rewritten_query", "reason">>),
    Object(<<"type:complex", "needs_interrupt:true", "reason">>),
    Object(<<"type:banana", "rewritten_query", "needs_interrupt:true", "reason">>),
    Object(<<"type:banana", "rewritten_query", "needs_interrupt:false", "reason">>) }

\* What the query-analyzer sub-agent may answer.
AnalyzerOutputs == WellFormedOutputs \cup MalformedOutputs

\* Texts of the orchestrator and of the research sub-agent.
PoliteRefusal == <<"please rephrase">>
ConfirmationRequest == <<"approve the rewritten query?">>
Findings == {<<"findings">>}
Reports == {<<"report">>, <<"report", refusal_phrases[1]>>}

\* ---------------------------------------------------------- orchestrator
\* Faulty variant: the instructions lack the rubbish rule.
OrchestratorRoutesNoRubbish(content) ==
  IF ~IsJsonObject(content) THEN {"plan"}
  ELSE LET data == json_loads(content) IN
       IF TypeOf(data) = "type:multitopic" \/ NeedsInterrupt(data) THEN {"confirm"}
       ELSE IF TypeOf(data) = "type:simple" THEN {"answer", "plan"}
       ELSE {"plan"}

\* RESEARCH_WORKFLOW_INSTRUCTIONS step 3, "Interpret the Analyzer Output":
\* the ways the orchestrator may go on after reading the analyzer's answer.
OrchestratorRoutes(content) ==
  IF ~IsJsonObject(content) THEN {"plan"}
  ELSE LET data == json_loads(content) IN
       IF TypeOf(data) = "type:rubbish" THEN {"refuse"}
       ELSE IF TypeOf(data) = "type:multitopic" \/ NeedsInterrupt(data) THEN {"confirm"}
       ELSE IF TypeOf(data) = "type:simple" THEN {"answer", "plan"}
       ELSE {"plan"}

Log(step) == ran' = Append(ran, step)

\* The run ends its turn with a last message: the exit node of the main
\* agent is the after-agent middleware (the final guard stage).
EndTurn(text, how) ==
  /\ messages' = Append(messages, AIMessage(text))
  /\ st' = [st EXCEPT ![FinalStage] = Submit(FinalStage, messages')]
  /\ route' = how
  /\ pc' = "FinalGuard"

\* A task's hash in redis; a field that was never set is the empty text.
NoTask ==
  [status |-> "none", message |-> <<>>, thread_id |-> "", result |-> <<>>,
   error |-> <<>>, ttl |-> FALSE]

\* No call of GET /status yet.
NoPoll ==
  [pc |-> "idle", task_id |-> 0, code |-> 0, status |-> "", result |-> <<>>,
   error |-> <<>>]

\* One task more than the pool has workers.
MaxQueue == max_workers + 1

\* The task ids the server hands out (uuid4), in the order of handing out.
TaskIds == 1..MaxQueue

\* No Sources section yet.
NoCitations == [merged |-> FALSE, sources |-> <<>>]

\* The conversation threads of two sessions.
ThreadIds == {"thread1", "thread2"}

\* The working files the workflow instructions name.
FileNames == {"research_request.md", "final_report.md"}
NoFile == [by |-> "", text |-> <<>>]
NoFiles == [f \in FileNames |-> NoFile]
NoFlow == [pc |-> "idle", request |-> <<>>, read |-> NoFile]

\* st.session_state of a new session: no history, no task being polled;
\* the script reruns.
NoSession == [history |-> <<>>, processing_task |-> 0, reruns |-> TRUE]

\* No call of content_safety_check yet.
NoCheck ==
  [pc |-> "idle", role |-> "", user |-> "absent", response |-> "absent",
   categories |-> "absent", safe |-> FALSE]

\* No call of tavily_search yet.
NoSearch == [pc |-> "idle", results |-> <<>>, texts |-> <<>>, out |-> <<>>, exc |-> ""]

\* No two threads are held side by side.
NoTwins == [th \in ThreadIds |-> <<>>]
NoVerdicts == [th \in ThreadIds |-> [g \in GuardSet(PreStage) |-> Running]]

Init ==
  /\ messages \in Histories
  /\ pc = "Intake"
  /\ route = "none"
  /\ st = [s \in StageIds |-> IdleStage]
  /\ oracleLog = {}
  /\ ran = <<>>
  /\ units = [i \in UnitIds |-> "none"]
  /\ round = 0
  /\ error = ""
  /\ task = NoTask
  /\ interrupts = <<>>
  /\ resumeLog = <<>>
  /\ tasks = [t \in TaskIds |-> NoTask]
  /\ results = <<>>
  /\ citations = NoCitations
  /\ workers = [t \in TaskIds |-> "none"]
  /\ poll = NoPoll
  /\ files = NoFiles
  /\ flows = [th \in ThreadIds |-> NoFlow]
  /\ twins = NoTwins
  /\ verdicts = NoVerdicts
  /\ session = NoSession
  /\ search = NoSearch
  /\ check = NoCheck

\* DeepAgents.invoke: the user message joins the thread, the before-agent
\* middleware (the pre-guard stage) starts.
\* chat_endpoint: the task is recorded as pending and handed to the pool.
chat_endpoint(query) ==
  /\ pc = "Intake"
  /\ task.status = "none"
  /\ task' = [NoTask EXCEPT !.status = "pending", !.message = query,
                            !.thread_id = "thread1"]
  /\ UNCHANGED <<pipelineVars, interrupts, aside>>

\* process_chat_task up to its call of deep_agent.invoke: status processing.
Invoke(query) ==
  /\ pc = "Intake"
  /\ task.status = "pending"
  /\ query = task.message
  /\ task' = [task EXCEPT !.status = "processing"]
  /\ messages' = Append(messages, HumanMessage(query))
  /\ st' = [st EXCEPT ![PreStage] = Submit(PreStage, messages')]
  /\ Log("preguard")
  /\ pc' = "PreGuard"
  /\ UNCHANGED <<route, oracleLog, units, round, error, interrupts, aside>>

PreGuardRaises ==
  /\ pc = "PreGuard" /\ Returned(PreStage) /\ IsExc(st[PreStage].ret)
  /\ pc' = "Failed"
  /\ error' = st[PreStage].ret.exc
  /\ UNCHANGED <<messages, route, st, oracleLog, ran, units, round, task, interrupts, aside>>

\* jump_to "end": the verdict's message joins the thread and the run goes to
\* its exit node.
PreGuardBlocks ==
  /\ pc = "PreGuard" /\ Returned(PreStage) /\ IsBlock(st[PreStage].ret)
  /\ EndTurn(st[PreStage].ret.content, "blocked")
  /\ Log("finalguard")
  /\ UNCHANGED <<oracleLog, units, round, error, task, interrupts, aside>>

\* Faulty variant: the agent starts without waiting for the pre-guard stage.
PreGuardNotAwaited ==
  /\ pc = "PreGuard"
  /\ pc' = "Analyze"
  /\ UNCHANGED <<messages, route, st, oracleLog, ran, units, round, error, task, interrupts, aside>>

PreGuardPasses ==
  /\ pc = "PreGuard" /\ Returned(PreStage) /\ IsPass(st[PreStage].ret)
  /\ pc' = "Analyze"
  /\ UNCHANGED <<messages, route, st, oracleLog, ran, units, round, error, task, interrupts, aside>>

\* The orchestrator's message that carries its task() call to the analyzer.
TaskCall == <<"task", "query-analyzer">>

\* Step 1: the raw user message goes to the query-analyzer sub-agent, whose
\* answer passes its after-agent middleware.
DelegateToAnalyzer(out) ==
  /\ pc = "Analyze"
  /\ st' = [st EXCEPT ![AnalyzerStage] =
              Submit(AnalyzerStage,
                     <<HumanMessage(LastMessageText(messages)), AIMessage(out)>>)]
  /\ messages' = Append(messages, AIMessage(TaskCall))
  /\ Log("classify")
  /\ pc' = "Classify"
  /\ UNCHANGED <<route, oracleLog, units, round, error, task, interrupts, aside>>

\* The arguments of interrupt(message=..., data=...): the proposal shown to
\* the user and the analyzer's rewritten_query, type and reason.
InterruptPayload(content) ==
  [message |-> <<"Proposed query:", "rewritten_query", "Reply with: APPROVE | REJECT">>,
   data |-> json_loads(content) \ InterruptFields]

\* interrupt(...) pauses the entire graph; the interrupt stays pending in
\* the thread's checkpoint.
AnalyzerInterrupts ==
  /\ pc = "Classify" /\ Returned(AnalyzerStage)
  /\ IsExc(st[AnalyzerStage].ret) /\ st[AnalyzerStage].ret.exc = "GraphInterrupt"
  /\ pc' = "Interrupted"
  /\ route' = "interrupt"
  /\ interrupts' =
       Append(interrupts, InterruptPayload(LastMessageText(st[AnalyzerStage].input)))
  /\ Log("interrupt")
  /\ UNCHANGED <<messages, st, oracleLog, units, round, error, task, aside>>

AnalyzerRaises ==
  /\ pc = "Classify" /\ Returned(AnalyzerStage)
  /\ IsExc(st[AnalyzerStage].ret) /\ st[AnalyzerStage].ret.exc # "GraphInterrupt"
  /\ pc' = "Failed"
  /\ error' = st[AnalyzerStage].ret.exc
  /\ UNCHANGED <<messages, route, st, oracleLog, ran, units, round, task, interrupts, aside>>

AnalyzerReturns ==
  /\ pc = "Classify" /\ Returned(AnalyzerStage) /\ ~IsExc(st[AnalyzerStage].ret)
  /\ messages' = Append(messages, ToolMessage(LastMessageText(st[AnalyzerStage].input)))
  /\ pc' = "Interpret"
  /\ UNCHANGED <<route, st, oracleLog, ran, units, round, error, task, interrupts, aside>>

OrchestratorRefuses ==
  /\ pc = "Interpret"
  /\ "refuse" \in OrchestratorRoutes(LastMessageText(messages))
  /\ EndTurn(PoliteRefusal, "refuse")
  /\ Log("finalguard")
  /\ UNCHANGED <<oracleLog, units, round, error, task, interrupts, aside>>

OrchestratorAsksConfirmation ==
  /\ pc = "Interpret"
  /\ "confirm" \in OrchestratorRoutes(LastMessageText(messages))
  /\ EndTurn(ConfirmationRequest, "confirm")
  /\ ran' = ran \o <<"interrupt", "finalguard">>
  /\ UNCHANGED <<oracleLog, units, round, error, task, interrupts, aside>>

OrchestratorAnswers(text) ==
  /\ pc = "Interpret"
  /\ "answer" \in OrchestratorRoutes(LastMessageText(messages))
  /\ EndTurn(text, "report")
  /\ Log("finalguard")
  /\ UNCHANGED <<oracleLog, units, round, error, task, interrupts, aside>>

\* Step 4, write_todos
OrchestratorPlans ==
  /\ pc = "Interpret"
  /\ "plan" \in OrchestratorRoutes(LastMessageText(messages))
  /\ pc' = "Delegate"
  /\ Log("plan")
  /\ UNCHANGED <<messages, route, st, oracleLog, units, round, error, task, interrupts, aside>>

\* ------------------------------------------------------------ delegation
RoundIdle == \A i \in UnitIds : units[i] \in {"none", "done", "blocked"}

\* Faulty variants: the orchestrator ignores a hard limit.
NoConcurrencyLimit(n) == TRUE

NoRoundLimit(r) == TRUE

\* "Maximum {max_concurrent_research_units} parallel sub-agents per round"
WithinConcurrencyLimit(n) == n <= max_concurrent_research_units

\* "Maximum {max_researcher_iterations} total delegation rounds"
WithinRoundLimit(r) == r < max_researcher_iterations

\* Step 5: one round of task() calls to the internet-research-agent, within
\* the limits SUBAGENT_DELEGATION_INSTRUCTIONS states.
DispatchRound(n) ==
  /\ pc = "Delegate"
  /\ RoundIdle
  /\ WithinRoundLimit(round)
  /\ WithinConcurrencyLimit(n)
  /\ units' = [i \in UnitIds |-> IF i <= n THEN "running" ELSE "none"]
  /\ st' = [s \in StageIds |-> IF s[1] = "unit" THEN IdleStage ELSE st[s]]
  /\ round' = round + 1
  /\ Log("delegate")
  /\ UNCHANGED <<messages, pc, route, oracleLog, error, task, interrupts, aside>>

\* The research sub-agent ends its run; its after-agent middleware (the
\* post-unit guard stage) starts on the sub-agent's own messages.
UnitAnswers(i, text) ==
  /\ pc = "Delegate"
  /\ units[i] = "running"
  /\ units' = [units EXCEPT ![i] = "guard"]
  /\ st' = [st EXCEPT ![UnitStage(i)] =
              Submit(UnitStage(i), <<HumanMessage(<<"topic">>), AIMessage(text)>>)]
  /\ UNCHANGED <<messages, pc, route, oracleLog, ran, round, error, task, interrupts, aside>>

\* The exception leaves the task() call and the run with it; the round's
\* other units are abandoned.
UnitGuardRaises(i) ==
  /\ pc = "Delegate"
  /\ units[i] = "guard" /\ Returned(UnitStage(i)) /\ IsExc(st[UnitStage(i)].ret)
  /\ pc' = "Failed"
  /\ error' = st[UnitStage(i)].ret.exc
  /\ units' = [j \in UnitIds |-> "none"]
  /\ st' = [s \in StageIds |-> IF s[1] = "unit" THEN IdleStage ELSE st[s]]
  /\ UNCHANGED <<messages, route, oracleLog, ran, round, task, interrupts, aside>>

\* The sub-agent's answer becomes the refusal phrase; the orchestrator goes on.
UnitGuardBlocks(i) ==
  /\ pc = "Delegate"
  /\ units[i] = "guard" /\ Returned(UnitStage(i)) /\ IsBlock(st[UnitStage(i)].ret)
  /\ units' = [units EXCEPT ![i] = "blocked"]
  /\ st' = [st EXCEPT ![UnitStage(i)] = IdleStage]
  /\ UNCHANGED <<messages, pc, route, oracleLog, ran, round, error, task, interrupts, aside>>

UnitGuardPasses(i) ==
  /\ pc = "Delegate"
  /\ units[i] = "guard" /\ Returned(UnitStage(i)) /\ IsPass(st[UnitStage(i)].ret)
  /\ units' = [units EXCEPT ![i] = "done"]
  /\ st' = [st EXCEPT ![UnitStage(i)] = IdleStage]
  /\ UNCHANGED <<messages, pc, route, oracleLog, ran, round, error, task, interrupts, aside>>

\* Step 6, "When all sub-agent reports are complete, read every finding."
Synthesize ==
  /\ pc = "Delegate"
  /\ round >= 1
  /\ RoundIdle
  /\ pc' = "Merge"
  /\ Log("merge")
  /\ UNCHANGED <<messages, route, st, oracleLog, units, round, error, task, interrupts, aside>>

\* Step 7: the report is the run's last message.
WriteReport(text) ==
  /\ pc = "Merge"
  /\ EndTurn(text, "report")
  /\ Log("finalguard")
  /\ UNCHANGED <<oracleLog, units, round, error, task, interrupts, aside>>

\* ------------------------------------------------------ final guard stage
FinalGuardRaises ==
  /\ pc = "FinalGuard" /\ Returned(FinalStage) /\ IsExc(st[FinalStage].ret)
  /\ pc' = "Failed"
  /\ error' = st[FinalStage].ret.exc
  /\ UNCHANGED <<messages, route, st, oracleLog, ran, units, round, task, interrupts, aside>>

FinalGuardBlocks ==
  /\ pc = "FinalGuard" /\ Returned(FinalStage) /\ IsBlock(st[FinalStage].ret)
  /\ messages' = Append(messages, AIMessage(st[FinalStage].ret.content))
  /\ pc' = "Blocked"
  /\ UNCHANGED <<route, st, oracleLog, ran, units, round, error, task, interrupts, aside>>

\* The run ends with the last message as it stands.
FinalGuardPasses ==
  /\ pc = "FinalGuard" /\ Returned(FinalStage) /\ IsPass(st[FinalStage].ret)
  /\ pc' = CASE route = "blocked" -> "Blocked"
             [] route = "refuse" -> "Refused"
             [] route = "confirm" -> "Interrupted"
             [] OTHER -> "Delivered"
  /\ UNCHANGED <<messages, route, st, oracleLog, ran, units, round, error, task, interrupts, aside>>

\* ------------------------------------------------- the end of the task
\* deep_agent.invoke returned (a run that an interrupt paused returns too).
\* Faulty variant: an interrupted run stays inside invoke.
InvokeHeldByInterrupt == pc \in {"Delivered", "Refused", "Blocked"}

InvokeReturned == pc \in {"Delivered", "Refused", "Blocked", "Interrupted"}

\* result["messages"][-1].content
response_content == LastMessageText(messages)

\* str(e) and traceback.format_exc()
error_detail == <<error, "Traceback (most recent call last):">>

\* process_chat_task after deep_agent.invoke returned: status completed.
TaskCompleted ==
  /\ InvokeReturned
  /\ task.status = "processing"
  /\ task' = [task EXCEPT !.status = "completed", !.result = response_content]
  /\ UNCHANGED <<pipelineVars, interrupts, aside>>

\* process_chat_task, "except Exception as e": status failed.
TaskFailed ==
  /\ pc = "Failed"
  /\ task.status = "processing"
  /\ task' = [task EXCEPT !.status = "failed", !.error = error_detail]
  /\ UNCHANGED <<pipelineVars, interrupts, aside>>

\* ------------------------------------------------------------------- crash
\* The server process dies while a run is in flight and is started again:
\* "deep_agent = DeepAgents()" makes a new MemorySaver, which holds the
\* checkpoints in the memory of the process, so the thread has none; the
\* task's hash lives in redis and stays as it was.
Crash ==
  /\ pc \notin {"Intake", "Crashed"}
  /\ pc' = "Crashed"
  /\ messages' = <<>>
  /\ interrupts' = <<>>
  /\ route' = "none"
  /\ st' = [s \in StageIds |-> IdleStage]
  /\ units' = [i \in UnitIds |-> "none"]
  /\ round' = 0
  /\ oracleLog' = {}
  /\ UNCHANGED <<ran, error, task, aside>>

\* ------------------------------------------------------------------ server
\* The tasks of the server: every POST /chat makes one, the pool's workers
\* run process_chat_task on them.
Busy == {t \in TaskIds : tasks[t].status = "processing"}

AtWork == {t \in TaskIds : workers[t] \in {"running", "closing"}}

\* What the server's operations leave alone.
offServer == <<pipelineVars, task, interrupts, resumeLog, results, citations, files, flows,
               twins, verdicts, search, check>>

\* The key task:{task_id} is in redis: it was written and has not expired.
KeyExists(t) == tasks[t].status \notin {"none", "gone"}

\* A key that expired: the hash and all its fields are gone.
Gone == [NoTask EXCEPT !.status = "gone"]

\* redis_client.hset(key, mapping={"status": status}) sets the field and
\* makes the hash when the key is absent; it leaves the time to live alone.
hset(t, status) ==
  IF KeyExists(t) THEN [tasks[t] EXCEPT !.status = status]
  ELSE [NoTask EXCEPT !.status = status]

\* chat_endpoint, for the next task id: the record with its time to live,
\* and executor.submit.
Accept(t, message, thread_id) ==
  /\ tasks[t].status = "none"
  /\ \A u \in TaskIds : u < t => tasks[u].status # "none"
  /\ tasks' = [tasks EXCEPT ![t] = [NoTask EXCEPT !.status = "pending",
                                     !.message = message, !.thread_id = thread_id,
                                     !.ttl = TRUE]]
  /\ workers' = [workers EXCEPT ![t] = "queued"]

\* POST /chat from any client.
PostChat(t, message, thread_id) ==
  /\ Accept(t, message, thread_id)
  /\ UNCHANGED <<offServer, poll, session>>

\* A free worker of the pool takes the task, the oldest of the queue:
\* process_chat_task sets processing and calls deep_agent.invoke(message,
\* thread_id).
\* Faulty variant: a worker that has finished a task takes no other.
WorkerNeverFreed ==
  Cardinality({t \in TaskIds : workers[t] \in {"running", "closing", "done"}}) < max_workers

\* Faulty variant: a pool that starts a thread for every submission.
NoWorkerLimit == TRUE

\* ThreadPoolExecutor(max_workers=10): a worker is idle or can still be
\* started.
WorkerFree == Cardinality(AtWork) < max_workers

TaskStarts(t) ==
  /\ workers[t] = "queued"
  /\ \A u \in TaskIds : u < t => workers[u] # "queued"
  /\ WorkerFree
  /\ workers' = [workers EXCEPT ![t] = "running"]
  /\ tasks' = [tasks EXCEPT ![t] = hset(t, "processing")]
  /\ UNCHANGED <<offServer, poll, session>>

\* The except branch of process_chat_task: status failed with the error's
\* text, and the time to live.
Failed(t, e) ==
  [hset(t, "failed") EXCEPT
     !.error = <<e, "Traceback (most recent call last):">>, !.ttl = TRUE]

\* deep_agent.invoke returned: status completed with the result; the worker
\* is still inside the try block, before redis_client.expire.
TaskCompletes(t, text) ==
  /\ workers[t] = "running"
  /\ workers' = [workers EXCEPT ![t] = "closing"]
  /\ tasks' = [tasks EXCEPT ![t] = [hset(t, "completed") EXCEPT !.result = text]]
  /\ UNCHANGED <<offServer, poll, session>>

\* redis_client.expire(key, 3600) after completion: the key's time to live
\* starts anew (nothing happens when the key is absent).
TaskExpireSet(t) ==
  /\ workers[t] = "closing"
  /\ workers' = [workers EXCEPT ![t] = "done"]
  /\ tasks' = [tasks EXCEPT ![t] =
                 IF KeyExists(t) THEN [tasks[t] EXCEPT !.ttl = TRUE] ELSE tasks[t]]
  /\ UNCHANGED <<offServer, poll, session>>

\* redis_client.expire raises (the connection to redis dropped after the
\* hset): the statement is inside the try block, so the except branch runs.
TaskExpireRaises(t) ==
  /\ workers[t] = "closing"
  /\ workers' = [workers EXCEPT ![t] = "done"]
  /\ tasks' = [tasks EXCEPT ![t] = Failed(t, "ConnectionError")]
  /\ UNCHANGED <<offServer, poll, session>>

\* deep_agent.invoke raised.
TaskFails(t) ==
  /\ workers[t] = "running"
  /\ workers' = [workers EXCEPT ![t] = "done"]
  /\ tasks' = [tasks EXCEPT ![t] = Failed(t, "RuntimeError")]
  /\ UNCHANGED <<offServer, poll, session>>

\* redis removes a key whose time to live (3600 s) has run out.
KeyExpires(t) ==
  /\ KeyExists(t)
  /\ tasks[t].ttl
  /\ tasks' = [tasks EXCEPT ![t] = Gone]
  /\ UNCHANGED <<offServer, workers, poll, session>>

\* get_task_status up to "if not redis_client.exists(key)": 404 or go on.
StatusExists(t) ==
  /\ poll.pc = "idle"
  /\ poll' = IF KeyExists(t)
             THEN [NoPoll EXCEPT !.pc = "hgetall", !.task_id = t]
             ELSE [NoPoll EXCEPT !.task_id = t, !.code = 404]
  /\ UNCHANGED <<offServer, tasks, workers, session>>

\* data.get(field): the field of the hash, or nothing.
data_get(t, field) == IF KeyExists(t) THEN tasks[t][field] ELSE <<>>

\* get_task_status from "data = redis_client.hgetall(key)" to the response.
StatusRead ==
  /\ poll.pc = "hgetall"
  /\ poll' = [NoPoll EXCEPT
               !.task_id = poll.task_id,
               !.code = 200,
               !.status = IF KeyExists(poll.task_id) THEN tasks[poll.task_id].status
                          ELSE "unknown",
               !.result = data_get(poll.task_id, "result"),
               !.error = data_get(poll.task_id, "error")]
  /\ UNCHANGED <<offServer, tasks, workers, session>>

\* ---------------------------------------------------------------- frontend
UserEntry(c) == [role |-> "user", content |-> c]
AssistantEntry(c) == [role |-> "assistant", content |-> c]

\* The messages the user has sent in this session.
Submitted == Len(SelectSeq(session.history, LAMBDA e : e.role = "user"))

\* st.chat_input(..., disabled=st.session_state.processing_task is not None)
InputEnabled == session.processing_task = 0

\* The chat input handler: the prompt joins the history, POST /chat is
\* answered with the task id, which becomes processing_task.
SubmitAccepted(t, q) ==
  /\ InputEnabled
  /\ Submitted < MaxTasks
  /\ Accept(t, q, "thread1")
  /\ session' = [session EXCEPT !.history = Append(@, UserEntry(q)),
                                !.processing_task = t]
  /\ UNCHANGED <<offServer, poll>>

\* requests.post raises before the server has the request: the error is
\* shown, processing_task stays None.
SubmitFails(q) ==
  /\ InputEnabled
  /\ Submitted < MaxTasks
  /\ session' = [session EXCEPT !.history = Append(@, UserEntry(q))]
  /\ UNCHANGED <<offServer, poll, tasks, workers>>

\* requests.post raises (timeout=15, connection lost) after the server has
\* accepted the task: processing_task stays None.
SubmitResponseLost(t, q) ==
  /\ InputEnabled
  /\ Submitted < MaxTasks
  /\ Accept(t, q, "thread1")
  /\ session' = [session EXCEPT !.history = Append(@, UserEntry(q))]
  /\ UNCHANGED <<offServer, poll>>

\* The polling block: GET /status/{task_id} for the session's task.
PollStarts ==
  /\ session.processing_task # 0
  /\ session.reruns
  /\ poll = NoPoll
  /\ StatusExists(session.processing_task)

\* The polling block from resp.raise_for_status() on: 404 raises HTTPError,
\* a RequestException; completed and failed append to the history and
\* clear processing_task; pending and processing rerun the script; any
\* other status runs no branch and no rerun.
PollHandled ==
  /\ poll.pc = "idle"
  /\ poll.code # 0
  /\ session' =
       IF poll.code # 200 THEN [session EXCEPT !.processing_task = 0]
       ELSE IF poll.status = "completed"
         THEN [session EXCEPT !.history = Append(@, AssistantEntry(poll.result)),
                              !.processing_task = 0]
       ELSE IF poll.status = "failed"
         THEN [session EXCEPT
                 !.history = Append(@, AssistantEntry(<<"**Error:** ">> \o poll.error)),
                 !.processing_task = 0]
       ELSE IF poll.status \in {"pending", "processing"} THEN session
       ELSE [session EXCEPT !.reruns = FALSE]
  /\ poll' = NoPoll
  /\ UNCHANGED <<offServer, tasks, workers>>

\* requests.get raises (timeout=10, connection lost): "Connection lost",
\* processing_task is cleared.
PollConnectionError ==
  /\ session.processing_task # 0
  /\ session.reruns
  /\ session' = [session EXCEPT !.processing_task = 0]
  /\ poll' = NoPoll
  /\ UNCHANGED <<offServer, tasks, workers>>

PoolStep ==
  \E t \in TaskIds :
    \/ TaskStarts(t)
    \/ \E text \in Reports : TaskCompletes(t, text)
    \/ TaskExpireSet(t)
    \/ TaskExpireRaises(t)
    \/ TaskFails(t)

PollStep == PollStarts \/ StatusRead \/ PollHandled

FrontNext ==
  \/ \E t \in 1..MaxTasks : \E q \in Queries : SubmitAccepted(t, q)
  \/ \E q \in Queries : SubmitFails(q)
  \/ \E t \in 1..MaxTasks : \E q \in Queries : SubmitResponseLost(t, q)
  \/ PoolStep
  \/ \E t \in TaskIds : KeyExpires(t)
  \/ PollStep
  \/ PollConnectionError

\* ------------------------------------------------------------------- merge
\* Step 6, "Deduplicate and renumber citations so every unique URL appears
\* exactly once across the entire project (1, 2, 3... no gaps, no
\* duplicates)", on the findings of a round's units.
URLs == {"u1", "u2"}

\* The URLs a unit's findings cite, in the order of its text.
CitedUrls == SeqsUpTo(URLs, MaxCites)

\* The findings of a round's units (unit: its place in the round's task()
\* calls), in the order in which the units completed.
UnitResults ==
  {r \in SeqsUpTo([unit : 1..MaxUnits, urls : CitedUrls], MaxUnits) :
     /\ r # <<>>
     /\ {r[k].unit : k \in 1..Len(r)} = 1..Len(r)}

\* The citations met when the findings are read in a given order.
RECURSIVE Occurrences(_, _, _)
Occurrences(rs, order, k) ==
  IF k > Len(rs) THEN <<>>
  ELSE rs[order[k]].urls \o Occurrences(rs, order, k + 1)

\* Faulty variant: no deduplication.
NeverCited(url, sources) == FALSE

IsCited(url, sources) == \E i \in 1..Len(sources) : sources[i] = url

\* A URL met for the first time takes the next number.
RECURSIVE Renumber(_, _)
Renumber(occurrences, sources) ==
  IF occurrences = <<>> THEN sources
  ELSE Renumber(Tail(occurrences),
                IF IsCited(Head(occurrences), sources) THEN sources
                ELSE Append(sources, Head(occurrences)))

\* The instructions do not say in which order the findings are read.
SynthesizeFindings(order) ==
  /\ ~citations.merged
  /\ citations' = [merged |-> TRUE,
                   sources |-> Renumber(Occurrences(results, order, 1), <<>>)]
  /\ UNCHANGED <<pipelineVars, task, interrupts, resumeLog, tasks, results, workers, poll,
                 files, flows,
           twins, verdicts, session, search, check>>

\* ------------------------------------------------------------------- reply
\* The answer to an interrupt is typed into the chat input, which is enabled
\* once the task has ended, and posted to /chat with the thread's id as any
\* message is; DeepAgents has invoke(query, thread_id) and no other entry
\* (resume_execution is named in the class docstring only).
Decisions == {"approve", "reject"}

ReplyText(decision) == IF decision = "approve" THEN <<"APPROVE">> ELSE <<"REJECT">>

\* interrupt(...) paused the thread's run and its interrupt is pending.
TokenOutstanding == pc = "Interrupted" /\ route = "interrupt"

Reply(decision) ==
  /\ Len(resumeLog) < MaxResumes
  /\ \/ pc = "Intake" /\ task.status = "none"
     \/ pc = "Interrupted" /\ task.status = "completed"
  /\ resumeLog' = Append(resumeLog,
       [decision |-> decision,
        token |-> IF TokenOutstanding THEN Len(interrupts) ELSE 0,
        stored |-> messages])
  /\ task' = [NoTask EXCEPT !.status = "pending", !.message = ReplyText(decision),
                            !.thread_id = "thread1"]
  /\ pc' = "Intake"
  /\ route' = "none"
  /\ st' = [s \in StageIds |-> IdleStage]
  /\ ran' = <<>>
  /\ units' = [i \in UnitIds |-> "none"]
  /\ round' = 0
  /\ oracleLog' = {}
  /\ UNCHANGED <<messages, error, interrupts, tasks, results, citations, workers, poll,
                 files, flows,
           twins, verdicts, session, search, check>>

\* ---------------------------------------------------------- specification
StageStep ==
  \E s \in StageIds :
    \/ \E g \in GuardSet(s) : StageTake(s, g)
    \/ StageLoopEnd(s)
    \/ StageExit(s)

OracleStep == \E s \in StageIds : \E g \in GuardSet(s) : GuardRun(s, g)

RunStep ==
  \/ \E q \in Queries : chat_endpoint(q)
  \/ \E q \in Queries : Invoke(q)
  \/ PreGuardRaises
  \/ PreGuardBlocks
  \/ PreGuardPasses
  \/ \E out \in AnalyzerOutputs : DelegateToAnalyzer(out)
  \/ AnalyzerInterrupts
  \/ AnalyzerRaises
  \/ AnalyzerReturns
  \/ OrchestratorRefuses
  \/ OrchestratorAsksConfirmation
  \/ \E text \in Reports : OrchestratorAnswers(text)
  \/ OrchestratorPlans
  \/ \E n \in 1..MaxUnits : round < MaxRounds /\ DispatchRound(n)
  \/ \E i \in UnitIds : \E text \in Findings : UnitAnswers(i, text)
  \/ \E i \in UnitIds : UnitGuardRaises(i)
  \/ \E i \in UnitIds : UnitGuardBlocks(i)
  \/ \E i \in UnitIds : UnitGuardPasses(i)
  \/ Synthesize
  \/ \E text \in Reports : WriteReport(text)
  \/ FinalGuardRaises
  \/ FinalGuardBlocks
  \/ FinalGuardPasses
  \/ TaskCompleted
  \/ TaskFailed

Next == OracleStep \/ StageStep \/ RunStep

Spec == Init /\ [][Next]_vars

\* A thread id the checkpointer has seen no message for.
FreshInit ==
  /\ messages = <<>>
  /\ pc = "Intake"
  /\ route = "none"
  /\ st = [s \in StageIds |-> IdleStage]
  /\ oracleLog = {}
  /\ ran = <<>>
  /\ units = [i \in UnitIds |-> "none"]
  /\ round = 0
  /\ error = ""
  /\ task = NoTask
  /\ interrupts = <<>>
  /\ resumeLog = <<>>
  /\ tasks = [t \in TaskIds |-> NoTask]
  /\ results = <<>>
  /\ citations = NoCitations
  /\ workers = [t \in TaskIds |-> "none"]
  /\ poll = NoPoll
  /\ files = NoFiles
  /\ flows = [th \in ThreadIds |-> NoFlow]
  /\ twins = NoTwins
  /\ verdicts = NoVerdicts
  /\ session = NoSession
  /\ search = NoSearch
  /\ check = NoCheck

\* A request on a fresh thread whose plan may hold any number of units up
\* to MaxPlan and take any number of rounds.
SchedStep == \E n \in 1..MaxPlan : DispatchRound(n)

SchedNext == Next \/ SchedStep

SchedSpec == FreshInit /\ [][SchedNext]_vars

\* A request on a fresh thread, its threads scheduled as in FairSpec.
FreshFairSpec ==
  FreshInit /\ [][Next]_vars /\ WF_vars(StageStep) /\ WF_vars(RunStep)

\* A request on a fresh thread, with the process dying at any point.
CrashNext == Next \/ Crash

CrashSpec == FreshInit /\ [][CrashNext]_vars

\* The server and its pool, for the submissions of several threads.
ServerNext ==
  \/ \E t \in 1..MaxTasks : \E q \in Queries : \E th \in ThreadIds : PostChat(t, q, th)
  \/ \E t \in TaskIds : TaskStarts(t)
  \/ \E t \in TaskIds : \E text \in Reports : TaskCompletes(t, text)
  \/ \E t \in TaskIds : TaskExpireSet(t)
  \/ \E t \in TaskIds : TaskExpireRaises(t)
  \/ \E t \in TaskIds : TaskFails(t)
  \/ \E t \in TaskIds : KeyExpires(t)
  \/ \E t \in 1..MaxTasks : StatusExists(t)
  \/ StatusRead

ServerSpec == FreshInit /\ [][ServerNext]_vars

\* ----------------------------------------------------------- working files
\* What a session may ask.
Requests == {<<"q1">>, <<"q2">>}

offFiles == <<pipelineVars, task, interrupts, resumeLog, tasks, results, citations,
              workers, poll, twins, verdicts, session, search, check>>

\* write_file(name, text) of the one FilesystemBackend(root_dir=memory_path):
\* the file of that name under the root directory, whoever wrote it before.
write_file(th, name, text) == [files EXCEPT ![name] = [by |-> th, text |-> text]]

\* Step 2, "Save the Original Request", of a workflow invoked with the
\* thread id th: its message joins the thread's state and is written to
\* research_request.md.
SaveRequest(th, q) ==
  /\ flows[th].pc \in {"idle", "verified"}
  /\ files' = write_file(th, "research_request.md", q)
  /\ flows' = [flows EXCEPT ![th] = [pc |-> "saved", request |-> q, read |-> NoFile]]
  /\ UNCHANGED offFiles

\* Step 7, "Write the Final Report": the answer goes to final_report.md.
WriteFinalReport(th) ==
  /\ flows[th].pc = "saved"
  /\ files' = write_file(th, "final_report.md", <<"report">> \o flows[th].request)
  /\ flows' = [flows EXCEPT ![th].pc = "reported"]
  /\ UNCHANGED offFiles

\* Step 8, "Re-read research_request.md": the workflow reads the file of
\* that name as it is now.
RereadRequest(th) ==
  /\ flows[th].pc = "reported"
  /\ flows' = [flows EXCEPT ![th].pc = "verified",
                            ![th].read = files["research_request.md"]]
  /\ UNCHANGED <<offFiles, files>>

FilesNext ==
  \/ \E th \in ThreadIds : \E q \in Requests : SaveRequest(th, q)
  \/ \E th \in ThreadIds : WriteFinalReport(th)
  \/ \E th \in ThreadIds : RereadRequest(th)

FilesSpec == FreshInit /\ [][FilesNext]_vars

\* ------------------------------------------------ two threads side by side
\* The recent turns of a thread: enough human messages to fill the widest
\* window with the request, the k-th of them unlike the others.
Recent(k) ==
  [i \in 1..(JailbreakWindow - 1) |->
     HumanMessage(IF i = k THEN <<"q1">> ELSE <<"q0">>)]

\* A thread's tail at a request: the request alone, or recent turns that
\* stand out at the far end of the jailbreak window or inside the
\* prompt-injection window, and then the request.
Tails ==
  {<<HumanMessage(<<"q1">>)>>}
    \cup {Recent(k) \o <<HumanMessage(<<"q1">>)>> :
            k \in {1, JailbreakWindow - PromptInjectionWindow + 1}}

\* A thread at a request: older history, then a tail.
TwinThreads ==
  {older \o tail : older \in SeqsUpTo(HistoryMessages, MaxOlder), tail \in Tails}

TwinInit ==
  /\ messages = <<>>
  /\ pc = "Intake"
  /\ route = "none"
  /\ st = [s \in StageIds |-> IdleStage]
  /\ oracleLog = {}
  /\ ran = <<>>
  /\ units = [i \in UnitIds |-> "none"]
  /\ round = 0
  /\ error = ""
  /\ task = NoTask
  /\ interrupts = <<>>
  /\ resumeLog = <<>>
  /\ tasks = [t \in TaskIds |-> NoTask]
  /\ results = <<>>
  /\ citations = NoCitations
  /\ workers = [t \in TaskIds |-> "none"]
  /\ poll = NoPoll
  /\ files = NoFiles
  /\ flows = [th \in ThreadIds |-> NoFlow]
  /\ twins \in [ThreadIds -> TwinThreads]
  /\ verdicts = NoVerdicts
  /\ session = NoSession
  /\ search = NoSearch
  /\ check = NoCheck

\* The pre-guard g runs on both threads; its oracle answers by the text it
\* is given, so equal texts get equal answers.
TwinGuardRun(g, reply) ==
  /\ \A th \in ThreadIds : verdicts[th][g] = Running
  /\ (\A a, b \in ThreadIds : OracleText(g, twins[a]) = OracleText(g, twins[b]))
       => \A a, b \in ThreadIds : reply[a] = reply[b]
  /\ verdicts' =
       [th \in ThreadIds |-> [verdicts[th] EXCEPT ![g] = Logic(g, twins[th], reply[th])]]
  /\ UNCHANGED <<pipelineVars, task, interrupts, resumeLog, tasks, results, citations,
                 workers, poll, files, flows, twins, session, search, check>>

TwinNext ==
  \E g \in GuardSet(PreStage) : \E reply \in [ThreadIds -> Replies(g)] : TwinGuardRun(g, reply)

TwinSpec == TwinInit /\ [][TwinNext]_vars

\* ------------------------------------------------------- content safety
\* What a field of the verdict object may hold when it is present.
FieldValues == {"safe", "unsafe", "Safe", "null"}

offCheck == <<pipelineVars, task, interrupts, resumeLog, tasks, results, citations,
              workers, poll, files, flows, twins, verdicts, session, search>>

\* content_safety_check(query, role) up to json.loads: the oracle's verdict
\* object, each of its fields present or absent.
VerdictArrives(role, user, response, categories) ==
  /\ check.pc = "idle"
  /\ check' = [pc |-> "loaded", role |-> role, user |-> user, response |-> response,
               categories |-> categories, safe |-> FALSE]
  /\ UNCHANGED offCheck

\* The return statement of content_safety_check.
CheckReturns ==
  /\ check.pc = "loaded"
  /\ check' = [check EXCEPT !.pc = "returned",
                            !.safe = content_safety_check(<<check.user, check.response>>)]
  /\ UNCHANGED offCheck

CheckNext ==
  \/ \E role \in {"user", "assistant"} :
       \E user, response \in FieldValues \cup {"absent"} :
         \E categories \in {"absent", "Violence"} :
           VerdictArrives(role, user, response, categories)
  \/ CheckReturns

CheckSpec == FreshInit /\ [][CheckNext]_vars

\* ------------------------------------------------------------ search tool
\* What the page behind a URL gives: a page, a page with profanity, or a
\* failing request (httpx raising, or raise_for_status on an error status).
FetchErrors == {"ReadTimeout", "HTTPStatusError"}
Pages == {"page", "profane page"} \cup FetchErrors

\* fetch_webpage_content: the page as markdown, or the error as text.
fetch_webpage_content(url, page) ==
  IF page \in FetchErrors THEN <<"Error fetching content from", url, page>> ELSE <<page>>

\* detect_bad: "yes" when the text holds profanity.
detect_bad(text) == IF PhraseIn("profane page", text) THEN "yes" ELSE "no"

offSearch == <<pipelineVars, task, interrupts, resumeLog, tasks, results, citations,
               workers, poll, files, flows, twins, verdicts, session, check>>

\* tavily_client.search(query, ...) returns its results.
SearchResults(urls) ==
  /\ search.pc = "idle"
  /\ search' = [search EXCEPT !.pc = "fetching", !.results = urls]
  /\ UNCHANGED offSearch

\* tavily_client.search raises (network, key, rate limit): nothing in
\* tavily_search catches it.
SearchRaises ==
  /\ search.pc = "idle"
  /\ search' = [search EXCEPT !.pc = "raised", !.exc = "TavilyError"]
  /\ UNCHANGED offSearch

\* One turn of the loop over the results: fetch, format, filter.
FetchResult(page) ==
  /\ search.pc = "fetching"
  /\ Len(search.texts) < Len(search.results)
  /\ LET url == search.results[Len(search.texts) + 1]
         result_text == <<"##", "title", "**URL:**", url>>
                          \o fetch_webpage_content(url, page) \o <<"---">>
     IN search' = [search EXCEPT !.texts =
                     Append(@, IF detect_bad(result_text) = "yes"
                               THEN <<"##", "title", "**URL: **", url,
                                      "Content violates safety guidelines">>
                               ELSE result_text)]
  /\ UNCHANGED offSearch

\* The loop is over: the formatted response is returned.
SearchReturns ==
  /\ search.pc = "fetching"
  /\ Len(search.texts) = Len(search.results)
  /\ search' = [search EXCEPT !.pc = "returned",
                              !.out = <<"Found", "results">> \o Join(search.texts)]
  /\ UNCHANGED offSearch

SearchNext ==
  \/ \E urls \in SeqsUpTo(URLs, MaxCites) : SearchResults(urls)
  \/ SearchRaises
  \/ \E page \in Pages : FetchResult(page)
  \/ SearchReturns

SearchSpec == FreshInit /\ [][SearchNext]_vars

\* A frontend session and the server.
FrontSpec == FreshInit /\ [][FrontNext]_vars

\* The same with fair threads: the pool's workers take their steps, and the
\* script's polling block runs while it reruns.
FrontFairSpec ==
  FreshInit /\ [][FrontNext]_vars /\ WF_vars(PoolStep) /\ WF_vars(PollStep)

\* The pool under load: submissions of one thread, one more than the pool
\* has workers, each run returning.
PoolNext ==
  \/ \E t \in TaskIds : \E q \in Queries : PostChat(t, q, "thread1")
  \/ \E t \in TaskIds : TaskStarts(t)
  \/ \E t \in TaskIds : TaskCompletes(t, <<"report">>)
  \/ \E t \in TaskIds : TaskExpireSet(t)

PoolSpec == FreshInit /\ [][PoolNext]_vars

\* The synthesis of the findings of one round's units.
MergeInit ==
  /\ results \in UnitResults
  /\ citations = NoCitations
  /\ workers = [t \in TaskIds |-> "none"]
  /\ poll = NoPoll
  /\ files = NoFiles
  /\ flows = [th \in ThreadIds |-> NoFlow]
  /\ twins = NoTwins
  /\ verdicts = NoVerdicts
  /\ session = NoSession
  /\ search = NoSearch
  /\ check = NoCheck
  /\ messages = <<>>
  /\ pc = "Intake"
  /\ route = "none"
  /\ st = [s \in StageIds |-> IdleStage]
  /\ oracleLog = {}
  /\ ran = <<>>
  /\ units = [i \in UnitIds |-> "none"]
  /\ round = 0
  /\ error = ""
  /\ task = NoTask
  /\ interrupts = <<>>
  /\ resumeLog = <<>>
  /\ tasks = [t \in TaskIds |-> NoTask]

MergeNext == \E order \in Permutations(1..Len(results)) : SynthesizeFindings(order)

MergeSpec == MergeInit /\ [][MergeNext]_vars

\* A request on a fresh thread and the replies that follow it.
ReplyStep ==
  \/ \E d \in Decisions : Reply(d)
  \/ \E d \in Decisions : Invoke(ReplyText(d))

ReplyNext == Next \/ ReplyStep

ReplySpec == FreshInit /\ [][ReplyNext]_vars

\* The threads of the run and of the pools are scheduled; an oracle call
\* carries no timeout and may never answer.
FairSpec == Spec /\ WF_vars(StageStep) /\ WF_vars(RunStep)

\* ================================================================ claims
Range(seq) == {seq[i] : i \in 1..Len(seq)}

Futures(s) == DOMAIN st[s].fut

\* ------------------------------------------------------------------- C1
\* C1: a guard stage (pre-guard, post-unit guard, final guard) in which a
\* guard invocation raised returns Block.
C1_ErrorMeansBlock ==
  \A s \in GuardStageIds :
    (Returned(s) /\ \E g \in Futures(s) : IsExc(st[s].fut[g])) => IsBlock(st[s].ret)

\* ------------------------------------------------------------------- C2
OnlyBlocker(s, g) ==
  /\ IsBlock(st[s].fut[g])
  /\ \A h \in Futures(s) \ {g} : st[s].fut[h] = None

\* C2: when exactly one guard of the set returns Block and the others return
\* Pass, the stage returns that guard's verdict, whatever the order in which
\* the results were taken.
C2_OnlyBlockerWins ==
  \A s \in GuardStageIds : \A g \in Futures(s) :
    (Returned(s) /\ OnlyBlocker(s, g)) =>
      (st[s].ret = st[s].fut[g] /\ st[s].from = g)

\* The pre-guard stage returned with one blocker after passes were taken first.
C2_Witness ==
  /\ Returned(PreStage)
  /\ \E g \in Futures(PreStage) : OnlyBlocker(PreStage, g)
  /\ st[PreStage].consumed # {}

\* ------------------------------------------------------------------- C3
\* C3: a guard stage that has left its loop with Pass has every guard of the
\* set completed with Pass; none is still running.
C3_PassMeansAllPassed ==
  \A s \in GuardStageIds :
    (st[s].pc \in {"exit", "returned"} /\ IsPass(st[s].ret)) =>
      \A g \in Futures(s) : st[s].fut[g] # Running /\ IsPass(st[s].fut[g])

C3_Witness ==
  /\ Returned(PreStage)
  /\ IsPass(st[PreStage].ret)
  /\ st[PreStage].consumed = GuardSet(PreStage)

\* ------------------------------------------------------------------- C4
\* C4: once the stage holds a guard's Block it returns it, whether or not
\* the sibling guards ever complete.
C4_BlockReturnsWithoutSiblings ==
  \A s \in GuardStageIds :
    (st[s].pc = "exit" /\ IsBlock(st[s].ret)) ~> Returned(s)

\* ------------------------------------------------------------------- C5
IsRefusalText(text) == \E k \in 1..Len(refusal_phrases) : text = <<refusal_phrases[k]>>

PreBlockTaken == Returned(PreStage) /\ IsBlock(st[PreStage].ret) /\ pc # "PreGuard"
FinalBlockTaken == Returned(FinalStage) /\ IsBlock(st[FinalStage].ret) /\ pc # "FinalGuard"
UnitBlockTaken == \E i \in UnitIds : units[i] = "blocked"

LaterSteps == {"classify", "interrupt", "plan", "delegate", "merge"}

C5_BlockedState ==
  /\ PreBlockTaken =>
       /\ pc \in {"FinalGuard", "Blocked"}
       /\ LastMessageText(messages) = <<refusal_phrases[1]>>
       /\ Range(ran) \cap LaterSteps = {}
       /\ round = 0
  /\ FinalBlockTaken =>
       /\ pc = "Blocked"
       /\ LastMessageText(messages) = <<refusal_phrases[2]>>
  /\ pc = "Blocked" => (PreBlockTaken \/ FinalBlockTaken)

FinalOracleCall ==
  [stage |-> FinalStage, guard |-> "ContentSafetyAssistant",
   text |-> LastMessageText(messages)]

\* C6: a delivered output was checked by the final guard stage's oracle.
C6_DeliveredWasChecked == pc = "Delivered" => FinalOracleCall \in oracleLog

\* ------------------------------------------------------------------- C7
PreCalls == {e \in oracleLog : e.stage = PreStage}

HumanCount(state) == Len(SelectSeq(state, isinstance_HumanMessage))

\* C7 as stated: the guards of the pre-guard stage see the same text.
C7_SameText == \A a, b \in PreCalls : a.text = b.text

\* C7, amended: the guards share the state but not the text. The
\* prompt-injection and jailbreak guards submit the same text while the
\* thread has at most 5 human messages; the content-safety guard submits the
\* last message, which is the others' text exactly when the thread has one
\* human message.
C7_TextsPerGuard ==
  \A a, b \in PreCalls :
    /\ (a.guard = "PromptInjection" /\ b.guard = "Jailbreak"
        /\ HumanCount(st[PreStage].input) <= PromptInjectionWindow)
         => a.text = b.text
    /\ (a.guard = "ContentSafetyUser" /\ b.guard \in {"PromptInjection", "Jailbreak"})
         => (a.text = b.text <=> HumanCount(st[PreStage].input) = 1)

C7_Witness ==
  /\ Cardinality(PreCalls) = 3
  /\ HumanCount(st[PreStage].input) >= 2

\* ------------------------------------------------------------ C8 .. C10
Analyzed == st[AnalyzerStage].pc # "idle"
AnalyzerOutput == LastMessageText(st[AnalyzerStage].input)

RequiredKeys == {"type", "rewritten_query", "needs_interrupt", "reason"}

\* The output is a Classification: an object with the four fields and one
\* of the four categories.
IsClassification(content) ==
  /\ IsJsonObject(content)
  /\ \A k \in RequiredKeys : HasKey(json_loads(content), k)
  /\ TypeOf(json_loads(content)) # "type:banana"

Category(content) == TypeOf(json_loads(content))

\* C8: on a malformed classifier output the run is neither suspended nor
\* ended by the analyzer's exception, and goes on to planning as for a
\* complex request.
C8_MalformedGoesOn ==
  (Analyzed /\ ~IsClassification(AnalyzerOutput)) =>
    /\ pc # "Interrupted"
    /\ ~(pc = "Failed" /\ IsExc(st[AnalyzerStage].ret))
    /\ route \in {"none", "report"}
    /\ "interrupt" \notin Range(ran)

DemandsInterrupt(content) ==
  /\ IsClassification(content)
  /\ (NeedsInterrupt(json_loads(content)) \/ Category(content) = "type:multitopic")

IsRubbish == Analyzed /\ IsClassification(AnalyzerOutput)
             /\ Category(AnalyzerOutput) = "type:rubbish"

C11_SuspendReturnsToken ==
  (pc = "Interrupted" /\ task.status = "completed") =>
    /\ Len(interrupts) = 1
    /\ task.result = interrupts[1].message

\* ------------------------------------------------------------------ C12
Replied(decision) ==
  /\ resumeLog # <<>>
  /\ resumeLog[Len(resumeLog)].decision = decision
  /\ resumeLog[Len(resumeLog)].token > 0
  /\ task.status # "pending"

\* C12: once an approve reply to a pending interrupt is taken up, the run
\* is at planning or beyond: the pre-guard stage and the classifier are not
\* run again; once a reject reply is taken up, the run is over and no unit
\* is dispatched.
C12_ReplyDecides ==
  /\ Replied("approve") => pc \notin {"PreGuard", "Analyze", "Classify", "Interpret"}
  /\ Replied("reject") => (round = 0 /\ pc \notin {"PreGuard", "Analyze", "Classify", "Interpret", "Delegate"})

\* ------------------------------------------------------------------ C13
\* C13: a reply posted while the thread has no interrupt pending causes no
\* transition and leaves the thread's stored state as it was.
C13_StrayReplyChangesNothing ==
  \A i \in 1..Len(resumeLog) :
    resumeLog[i].token = 0 => (messages = resumeLog[i].stored /\ pc = "Intake")

\* ------------------------------------------------------------------ C14
InFlight == {i \in UnitIds : units[i] \in {"running", "guard"}}

C16_DelegateReturns == (pc = "Delegate") ~> (pc # "Delegate")

\* ------------------------------------------------------------------ C17
\* C17: the failure of a research unit (its guard stage blocks or raises)
\* stays with the unit: no run ends in failure while it is delegating.
C17_UnitFailureIsLocal ==
  pc = "Failed" => (ran = <<>> \/ ran[Len(ran)] # "delegate")

\* ------------------------------------------------------------------ C18
AllCited == UNION {Range(results[k].urls) : k \in 1..Len(results)}

\* The numbers the Sources section gives a URL.
IndicesOf(url) ==
  {i \in 1..Len(citations.sources) : citations.sources[i] = url}

ByCreation == [u \in 1..Len(results) |-> CHOOSE k \in 1..Len(results) : results[k].unit = u]

\* The citations of the units before unit u, and those before place j in u.
Before(u, j) ==
  UNION {Range(results[ByCreation[v]].urls) : v \in 1..(u - 1)}
    \cup {results[ByCreation[u]].urls[i] : i \in 1..(j - 1)}

\* C19: whatever the order in which the units completed, a URL's number is
\* one more than the number of distinct URLs cited before its first
\* occurrence in the units' creation order.
C19_CreationOrderDecides ==
  citations.merged =>
    \A u \in 1..Len(results) : \A j \in 1..Len(results[ByCreation[u]].urls) :
      LET url == results[ByCreation[u]].urls[j] IN
        url \notin Before(u, j) =>
          IndicesOf(url) = {Cardinality(Before(u, j)) + 1}

\* ------------------------------------------------------------------ C20
\* C20: two chat submissions of one thread are never processed at the same
\* time.
C20_OneRunPerThread ==
  \A t, u \in Busy : tasks[t].thread_id = tasks[u].thread_id => t = u

\* ------------------------------------------------------------------ C21
\* C21: after a crash in the middle of a run, the thread's checkpoint holds
\* what the last completed transition saved: the messages and the pending
\* interrupts are those of the moment before the crash.
C21_CrashKeepsCheckpoint ==
  [][(pc' = "Crashed" /\ pc # "Crashed") =>
       (messages' = messages /\ interrupts' = interrupts)]_vars

\* ------------------------------------------------------------------ C22
StatusValues == {"pending", "processing", "completed", "failed"}

\* C22: a response of the status operation carries one of the statuses
\* pending, processing, completed, failed.
C22_StatusIsOneOfFour == poll.code = 200 => poll.status \in StatusValues

\* ------------------------------------------------------------------ C23
\* The failure texts a user may be shown.
GenericFailureTexts ==
  {<<"processing failed">>} \cup {<<refusal_phrases[k]>> : k \in 1..Len(refusal_phrases)}

\* C23: the error text that a failed task's record hands to the status
\* operation, and the page shows, is a fixed generic message: a safety
\* refusal or "processing failed".
C23_FailureTextIsGeneric ==
  task.status = "failed" => task.error \in GenericFailureTexts

\* ------------------------------------------------------------------ C24
\* C24: a run suspended for an interrupt gives its worker back: its task
\* leaves the processing state (process_chat_task ends) and stays out of it
\* while the run waits for the decision.
C24_InterruptFreesWorker ==
  /\ (pc = "Interrupted") ~> (task.status # "processing")
  /\ [][(pc = "Interrupted" /\ task.status # "processing") =>
          task'.status # "processing"]_vars

\* The classifier's interrupt is pending and the task has ended.
C24_Witness ==
  /\ pc = "Interrupted"
  /\ route = "interrupt"
  /\ interrupts # <<>>
  /\ task.status = "completed"

\* ------------------------------------------------------------------ C25
StepRank(step) ==
  CASE step = "preguard" -> 1
    [] step = "classify" -> 2
    [] step = "interrupt" -> 3
    [] step = "plan" -> 4
    [] step = "delegate" -> 5
    [] step = "merge" -> 6
    [] OTHER -> 7

\* C25: the steps of a run come in the order pre-guard, classify,
\* (interrupt), plan, delegate, merge, final guard, none of them twice but a
\* delegation round; and the classifier, the planning and the dispatch of
\* units happen only after the pre-guard stage has returned Pass.
C25_StagesInOrder ==
  /\ ran # <<>> => ran[1] = "preguard"
  /\ \A i \in 1..(Len(ran) - 1) :
       \/ StepRank(ran[i]) < StepRank(ran[i + 1])
       \/ ran[i] = "delegate" /\ ran[i + 1] = "delegate"
  /\ (Range(ran) \cap {"classify", "plan", "delegate"} # {} \/ round > 0) =>
       (Returned(PreStage) /\ IsPass(st[PreStage].ret))

\* A delivered run that went through every stage, with two rounds.
C25_Witness ==
  /\ pc = "Delivered"
  /\ ran = <<"preguard", "classify", "plan", "delegate", "delegate", "merge", "finalguard">>

\* ------------------------------------------------------------------ C26
StatusRank(status) ==
  CASE status = "pending" -> 1
    [] status = "processing" -> 2
    [] OTHER -> 3

\* C26: a task record's status only moves forward along pending ->
\* processing -> (completed | failed); completed and failed are final (a
\* record that is completed never becomes failed, nor the reverse).
C26_StatusMovesForward ==
  [][\A t \in TaskIds :
       (KeyExists(t) /\ tasks'[t].status \notin {"none", "gone"}) =>
         /\ StatusRank(tasks[t].status) <= StatusRank(tasks'[t].status)
         /\ (tasks[t].status \in {"completed", "failed"} =>
               tasks'[t].status = tasks[t].status)]_vars

\* The pool under load with fair workers: while a worker has a step to
\* take (a queued task and a free worker, a run that returns, a closing
\* call), some worker takes one.
WorkerStep ==
  \E t \in TaskIds :
    TaskStarts(t) \/ TaskCompletes(t, <<"report">>) \/ TaskExpireSet(t)

PoolFairSpec == FreshInit /\ [][PoolNext]_vars /\ WF_vars(WorkerStep)

\* C27: every accepted task eventually has status completed or failed, the
\* task that waits behind a full pool included: from some point on no
\* accepted task is left pending or processing.
Unfinished == {t \in TaskIds : tasks[t].status \in {"pending", "processing"}}

C27_AcceptedTaskEnds == <>[](Unfinished = {})

\* One task more than the pool has workers was accepted, and every one has
\* ended.
C27_Witness ==
  /\ \A t \in TaskIds : tasks[t].status = "completed" /\ workers[t] = "done"
  /\ Unfinished = {}

\* C28: a task record carries a result only with status completed and an
\* error only with status failed, and never both.
C28_ResultOrError ==
  \A t \in TaskIds :
    KeyExists(t) =>
      /\ tasks[t].result # <<>> => tasks[t].status = "completed"
      /\ tasks[t].error # <<>> => tasks[t].status = "failed"
      /\ ~(tasks[t].result # <<>> /\ tasks[t].error # <<>>)

C30_ThreadsDoNotInterfere ==
  \A th \in ThreadIds :
    flows[th].pc = "verified" =>
      /\ flows[th].read.by = th
      /\ flows[th].read.text = flows[th].request

\* The guards of a stage whose futures hold a Block verdict.
Blockers(s) == {g \in DOMAIN st[s].fut : IsBlock(st[s].fut[g])}

\* C31: in the pre-guard stage every guard's Block verdict is one value (an
\* assistant message with the first refusal phrase, jump target end), and
\* when two or more guards block, the stage returns that value whatever the
\* completion order and whichever guard wins.
C31_BlockIsOneValue ==
  /\ \A g \in Blockers(PreStage) : st[PreStage].fut[g] = Refusal(1)
  /\ (Returned(PreStage) /\ Cardinality(Blockers(PreStage)) >= 2)
       => st[PreStage].ret = Refusal(1)

AgreeOnTail(a, b) ==
  /\ LastN(SelectSeq(a, isinstance_HumanMessage), JailbreakWindow)
       = LastN(SelectSeq(b, isinstance_HumanMessage), JailbreakWindow)
  /\ a[Len(a)] = b[Len(b)]

\* C33: the pre-guard verdict depends only on the tail of the thread: the
\* prompt-injection guard is given the last 5 human messages, the jailbreak
\* guard the last 10, the content-safety guard the last message, and two
\* threads that agree on their last 10 human messages and on their last
\* message get the same verdict of every pre-guard, whatever their older
\* history.
C33_VerdictDependsOnTail ==
  \A a, b \in ThreadIds :
    AgreeOnTail(twins[a], twins[b]) =>
      /\ \A g \in GuardSet(PreStage) : OracleText(g, twins[a]) = OracleText(g, twins[b])
      /\ verdicts[a] = verdicts[b]

\* Two threads agree on their tail, the first has one more human message
\* than the widest window holds and the second has not, and the three
\* pre-guards have returned, one of them with a Block.
C33_Witness ==
  /\ AgreeOnTail(twins["thread1"], twins["thread2"])
  /\ Len(SelectSeq(twins["thread1"], isinstance_HumanMessage)) > JailbreakWindow
  /\ Len(SelectSeq(twins["thread2"], isinstance_HumanMessage)) = JailbreakWindow
  /\ \A th \in ThreadIds : \A g \in GuardSet(PreStage) : verdicts[th][g] # Running
  /\ \E g \in GuardSet(PreStage) : IsBlock(verdicts["thread1"][g])

\* The thread's backend tasks that have not ended.
InFlight1 == {t \in TaskIds : tasks[t].thread_id = "thread1"
                               /\ tasks[t].status \in {"pending", "processing"}}

\* C34: a frontend session has at most one backend task in flight for its
\* thread id: a new message is submitted only after the task submitted
\* before has reached completed or failed.
C34_OneTaskInFlight == Cardinality(InFlight1) <= 1

\* The assistant entries of the session's history.
AssistantEntries == Len(SelectSeq(session.history, LAMBDA e : e.role = "assistant"))

\* The requests the backend has accepted.
Accepted == Cardinality({t \in TaskIds : workers[t] # "none"})

\* C35: for every request the backend accepted, the frontend polls while
\* the status is pending or processing and eventually appends one assistant
\* entry for it, the result or the error: from some point on the history has
\* as many assistant entries as the backend accepted requests.
C35_EveryRequestAnswered == <>[](AssistantEntries = Accepted)

\* C36: tavily_search raises no exception: an error of the search API call
\* or of fetching a result page is returned as text in the tool's output.
C36_SearchNeverRaises == search.pc # "raised"

\* The field is in the verdict object with a value other than "safe".
PresentNotSafe(v) == v # "absent" /\ v # "safe"

\* C37: content_safety_check returns safe exactly when neither "User
\* Safety" nor "Response Safety" is present with a value other than "safe";
\* an absent field counts as safe, so a verdict with neither field is safe.
C37_SafeUnlessFlagged ==
  check.pc = "returned" =>
    (check.safe <=> (~PresentNotSafe(check.user) /\ ~PresentNotSafe(check.response)))

\* A verdict object with neither field was judged safe.
C37_Witness ==
  /\ check.pc = "returned"
  /\ check.user = "absent"
  /\ check.response = "absent"
  /\ check.safe

====
